---- MODULE Spec2Model ----
(***************************************************************************)
(* Model of the earthworm chat client: the ChatService persistence API     *)
(* (src/src/services/chatService.ts), the ChatPage session controller      *)
(* (src/src/pages/ChatPage.tsx) and the ChatInput composer                 *)
(* (src/src/components/chat/ChatInput.tsx).                                *)
(*                                                                         *)
(* Modelling conventions                                                   *)
(*  - a string is a sequence of one-character strings;                     *)
(*  - a Date is its time value in milliseconds, InvalidDate for NaN;       *)
(*  - a session id "session_<random>" is a positive number drawn from a    *)
(*    counter (generateSessionId is assumed never to repeat a value);      *)
(*  - a message id Date.now().toString() is the clock value it prints;     *)
(*  - the localStorage record is kept as the JSON value that JSON.parse    *)
(*    yields for it (or a marker when it is missing or does not parse).    *)
(***************************************************************************)
EXTENDS Integers, Sequences, FiniteSets, TLC

VARIABLES
    storage,      \* localStorage["earthworm-chat-history"]
    call,         \* the last ChatService call: its name, argument, outcome
    nextId,       \* number of ids generateSessionId has produced so far
    newIds,       \* number of new sessions saved in this run (SpecStore)
    edits,        \* number of replace/delete/clear calls made (SpecStore)
    sessionId,    \* chatService.sessionId
    dev,          \* import.meta.env.DEV
    language,     \* useLanguage().language
    now,          \* Date.now()
    mounted,      \* whether a ChatPage (with its ChatInput) is mounted
    instance,     \* which ChatPage instance the mounted one is (mount count)
    sessions,     \* ChatPage state: the session index
    currentSession, \* ChatPage state: the active session
    isLoading,    \* ChatPage state
    input,        \* ChatInput state: the text field
    selectedImage, \* ChatInput state: null or a data URL
    audioFile,    \* ChatInput state: null or a data URL
    isRecording,  \* ChatInput state
    recordingTime, \* ChatInput state: seconds shown while recording
    mediaRecorderRef, \* ChatInput ref: the MediaRecorder of the last start (0: null)
    recordingIntervalRef, \* ChatInput ref: the interval of the last start (0: null)
    acquiring,    \* the startRecording calls waiting in `await getUserMedia(...)`
    recorders,    \* the MediaRecorders made so far, each with its stream
    timers,       \* the intervals that are set
    encoding,     \* the FileReaders reading a finished recording
    pending,      \* the handleSend calls waiting in `await sendMessage(...)`
    requests,     \* number of POST /chat requests issued so far
    event         \* the handler that made the last step, and how it ended

storeVars == <<call, newIds, edits>>
serviceVars == <<sessionId, nextId>>
pageVars == <<mounted, instance, sessions, currentSession, isLoading>>
inputVars == <<input, selectedImage, audioFile>>
recVars ==
    <<isRecording, recordingTime, mediaRecorderRef, recordingIntervalRef, acquiring,
      recorders, timers, encoding>>
vars ==
    <<storage, call, nextId, newIds, edits, sessionId, dev, language, now, mounted, instance,
      sessions, currentSession, isLoading, input, selectedImage, audioFile, isRecording,
      recordingTime, mediaRecorderRef, recordingIntervalRef, acquiring, recorders, timers,
      encoding, pending, requests, event>>

(***************************************************************************)
(* Bounds of the model                                                     *)
(***************************************************************************)
\* how many sessions with a new id are saved in a persistence run
MaxNewIds == 4
\* how many replace/delete/clear calls are made in a persistence run
MaxEdits == 2
\* how many elements a hand-written (possibly corrupt) record holds at most
MaxRecordItems == 2
\* how many session ids generateSessionId produces in a chat page run
MaxIds == 2
\* how many times the chat page is mounted
MaxMounts == 2
\* how many requests are sent to the chat endpoint
MaxRequests == 2
\* how far the clock advances
MaxClock == 1
\* the longest text typed into the input field
MaxTextLen == 31
\* sessions in the smaller of the stores an earlier visit left
SmallHistory == 2
\* sessions deleted from a full index in a run
MaxDeletes == 1
\* getUserMedia calls (startRecording calls that got that far) in a run
MaxRecordings == 3
\* seconds the recording time counts to
MaxRecordingTime == 2

(***************************************************************************)
(* Values                                                                  *)
(***************************************************************************)
InvalidDate == -1
Undefined == "undefined"
Null == "null"

\* saveChatHistory: "Keep only last 50 sessions"
MaxHistory == 50

\* seq without its element at position i (1-based)
Without(seq, i) == SubSeq(seq, 1, i - 1) \o SubSeq(seq, i + 1, Len(seq))

RECURSIVE Rep(_, _)
Rep(c, n) == IF n = 0 THEN <<>> ELSE <<c>> \o Rep(c, n - 1)

(***************************************************************************)
(* JSON.stringify / JSON.parse of the values the store holds               *)
(***************************************************************************)
\* variant of DateToJSON: the timestamp printed to the second only
DateToJSONSeconds(d) ==
    IF d = InvalidDate
    THEN [k |-> "null", sec |-> 0, milli |-> 0]
    ELSE [k |-> "iso", sec |-> d \div 1000, milli |-> 0]

\* Date.prototype.toJSON: toISOString() of a valid date (seconds and a
\* three-digit millisecond field), null for an invalid one
DateToJSON(d) ==
    IF d = InvalidDate
    THEN [k |-> "null", sec |-> 0, milli |-> 0]
    ELSE [k |-> "iso", sec |-> d \div 1000, milli |-> d % 1000]

\* new Date(v) of a parsed JSON value: an ISO string gives its instant,
\* null gives the epoch, undefined or any other text gives Invalid Date
NewDate(j) ==
    CASE j.k = "iso" -> j.sec * 1000 + j.milli
      [] j.k = "null" -> 0
      [] OTHER -> InvalidDate

\* JSON.stringify drops a key whose value is undefined
OptToJSON(a) ==
    IF a = Undefined THEN [k |-> "absent", v |-> ""] ELSE [k |-> "str", v |-> a]

\* reading a key of a parsed object: undefined when the key is absent
OptFromJSON(j) == IF j.k = "absent" THEN Undefined ELSE j.v

MessageToJSON(m) ==
    [k |-> "obj", id |-> m.id, role |-> m.role, content |-> m.content,
     timestamp |-> DateToJSON(m.timestamp),
     imageUrl |-> OptToJSON(m.imageUrl), audioUrl |-> OptToJSON(m.audioUrl)]

SessionToJSON(s) ==
    [k |-> "obj", id |-> s.id, title |-> s.title,
     messages |-> [k |-> "array",
                   items |-> [i \in 1..Len(s.messages) |-> MessageToJSON(s.messages[i])]],
     createdAt |-> DateToJSON(s.createdAt),
     updatedAt |-> DateToJSON(s.updatedAt)]

\* localStorage.setItem(key, JSON.stringify(history))
Stringify(history) ==
    [k |-> "value",
     v |-> [k |-> "array",
            items |-> [i \in 1..Len(history) |-> SessionToJSON(history[i])]]]

(***************************************************************************)
(* ChatService: the persisted session collection                           *)
(***************************************************************************)
\* messages: s.messages.map(m => ({...m, timestamp: new Date(m.timestamp)}))
\* of an element that is an object or a primitive (a primitive spreads to {})
MessageFromJSON(m) ==
    IF m.k = "obj"
    THEN [id |-> m.id, role |-> m.role, content |-> m.content,
          timestamp |-> NewDate(m.timestamp),
          imageUrl |-> OptFromJSON(m.imageUrl), audioUrl |-> OptFromJSON(m.audioUrl)]
    ELSE [timestamp |-> InvalidDate]

\* parsed.map(s => ({...s, createdAt: new Date(s.createdAt), ...}))
SessionFromJSON(s) ==
    [id |-> s.id, title |-> s.title,
     messages |-> [i \in 1..Len(s.messages.items) |-> MessageFromJSON(s.messages.items[i])],
     createdAt |-> NewDate(s.createdAt),
     updatedAt |-> NewDate(s.updatedAt)]

\* the element makes the mapping throw a TypeError: it is null (s.createdAt),
\* it has no array under messages (s.messages.map), or a message is null
\* (m.timestamp)
SessionThrows(s) ==
    \/ s.k # "obj"
    \/ s.messages.k # "array"
    \/ \E i \in 1..Len(s.messages.items) : s.messages.items[i].k = "null"

\* the try block of getChatHistory: the value it returns, whether it threw,
\* or neither (saved is null or "", and control falls out of the if)
TryGetChatHistory(st) ==
    CASE st.k \in {"missing", "empty"} -> [threw |-> FALSE, returned |-> FALSE, value |-> <<>>]
      [] st.k = "unparseable" -> [threw |-> TRUE, returned |-> FALSE, value |-> <<>>]
      [] st.v.k # "array" -> [threw |-> TRUE, returned |-> FALSE, value |-> <<>>]
      [] \E i \in 1..Len(st.v.items) : SessionThrows(st.v.items[i]) ->
            [threw |-> TRUE, returned |-> FALSE, value |-> <<>>]
      [] OTHER -> [threw |-> FALSE, returned |-> TRUE,
                   value |-> [i \in 1..Len(st.v.items) |-> SessionFromJSON(st.v.items[i])]]

\* getChatHistory with its catch: what the caller gets
GetChatHistoryOutcome(st) ==
    LET r == TryGetChatHistory(st)
    IN  IF r.returned
        THEN [raised |-> FALSE, value |-> r.value]
        ELSE [raised |-> FALSE, value |-> <<>>]

GetChatHistory(st) == GetChatHistoryOutcome(st).value

\* Array.prototype.findIndex(s => s.id === id): 0-based, -1 when absent
FindIndex(history, id) ==
    IF \E i \in 1..Len(history) : history[i].id = id
    THEN (CHOOSE i \in 1..Len(history) :
              /\ history[i].id = id
              /\ \A j \in 1..(i - 1) : history[j].id # id) - 1
    ELSE -1

\* Array.prototype.filter(s => s.id !== id)
RECURSIVE FilterOut(_, _)
FilterOut(history, id) ==
    IF Len(history) = 0 THEN <<>>
    ELSE IF Head(history).id = id THEN FilterOut(Tail(history), id)
    ELSE <<Head(history)>> \o FilterOut(Tail(history), id)

\* the session of history that was updated least recently
Oldest(history) ==
    CHOOSE i \in 1..Len(history) :
        \A j \in 1..Len(history) :
            \/ history[i].updatedAt < history[j].updatedAt
            \/ (history[i].updatedAt = history[j].updatedAt /\ i <= j)

\* variant of SavedHistory: the capacity check is off by one (>= 50 + 1 read
\* as > 50 + 1), so nothing is evicted at 51
SavedHistoryNoEvict(st, session) ==
    LET history == GetChatHistory(st)
        existingIndex == FindIndex(history, session.id)
        upserted == IF existingIndex >= 0
                    THEN [history EXCEPT ![existingIndex + 1] = session]
                    ELSE Append(history, session)
    IN  IF Len(upserted) > MaxHistory + 1 THEN Tail(upserted) ELSE upserted

\* variant of SavedHistory: least-recently-updated eviction instead of FIFO
SavedHistoryLRU(st, session) ==
    LET history == GetChatHistory(st)
        existingIndex == FindIndex(history, session.id)
        upserted == IF existingIndex >= 0
                    THEN [history EXCEPT ![existingIndex + 1] = session]
                    ELSE Append(history, session)
        o == Oldest(upserted)
    IN  IF Len(upserted) > MaxHistory
        THEN SubSeq(upserted, 1, o - 1) \o SubSeq(upserted, o + 1, Len(upserted))
        ELSE upserted

\* variant of SavedHistory: an update moves the session to the end
SavedHistoryMoveToEnd(st, session) ==
    LET history == Append(FilterOut(GetChatHistory(st), session.id), session)
    IN  IF Len(history) > MaxHistory THEN Tail(history) ELSE history

\* the array saveChatHistory writes
SavedHistory(st, session) ==
    LET history == GetChatHistory(st)
        existingIndex == FindIndex(history, session.id)
        upserted == IF existingIndex >= 0
                    THEN [history EXCEPT ![existingIndex + 1] = session]
                    ELSE Append(history, session)
    IN  IF Len(upserted) > MaxHistory THEN Tail(upserted) ELSE upserted

SaveChatHistory(st, session) == Stringify(SavedHistory(st, session))

\* variant of DeleteChatSession: the filter keeps the match (=== for !==)
DeleteChatSessionKeepMatch(st, id) ==
    LET history == GetChatHistory(st)
        i == FindIndex(history, id)
    IN  Stringify(IF i >= 0 THEN <<history[i + 1]>> ELSE <<>>)

DeleteChatSession(st, id) == Stringify(FilterOut(GetChatHistory(st), id))

\* localStorage.removeItem
ClearAllHistory == [k |-> "missing"]

(***************************************************************************)
(* Sessions the chat page hands to saveChatHistory: one completed exchange *)
(* (a user message and the assistant's answer), text-only or media-only    *)
(***************************************************************************)
NewChatTitle == <<"New Chat">>
StoreVariants == {1, 2, 3}

\* v = 1: a text message and its answer; v = 2: a media-only message and its
\* answer; v = 3: a conversation resumed later, with a second exchange
StoreSession(id, v) ==
    LET t0 == 1001 * id
        t1 == t0 + 999
        t2 == 1001 * 1000 + id
        text == v # 2
        first ==
            << [id |-> t1, role |-> "user",
                content |-> IF text THEN <<"h", "i">> ELSE <<>>,
                timestamp |-> t1,
                imageUrl |-> IF text THEN Undefined ELSE "data:image",
                audioUrl |-> IF text THEN Undefined ELSE "data:audio"],
               [id |-> t1 + 3, role |-> "assistant", content |-> <<"o", "k">>,
                timestamp |-> t1 + 2,
                imageUrl |-> Undefined, audioUrl |-> Undefined] >>
        second ==
            << [id |-> t2, role |-> "user", content |-> <<"y", "o">>,
                timestamp |-> t2,
                imageUrl |-> Undefined, audioUrl |-> Undefined],
               [id |-> t2 + 1, role |-> "assistant", content |-> <<"o", "k">>,
                timestamp |-> t2,
                imageUrl |-> Undefined, audioUrl |-> Undefined] >>
    IN  [id |-> id,
         title |-> IF text THEN <<"h", "i">> ELSE NewChatTitle,
         messages |-> IF v = 3 THEN first \o second ELSE first,
         createdAt |-> t0,
         updatedAt |-> IF v = 3 THEN t2 ELSE t1 + 2]

\* the variant a session is first saved as
FirstVariant(id) == IF id % 2 = 1 THEN 1 ELSE 2

\* the stored ids a replace or delete is tried on: first, second and last
EditIds(history) ==
    {history[i].id : i \in {1, 2, Len(history)} \cap (1..Len(history))}

(***************************************************************************)
(* SpecStore: the ChatService persistence API driven on its own            *)
(***************************************************************************)
\* the record after the sessions 1..n (n <= 50, each with a new id) have been
\* saved into an empty store: every save appended, none evicted
StoreAfter(n) ==
    IF n = 0 THEN ClearAllHistory
    ELSE Stringify([i \in 1..n |-> StoreSession(i, FirstVariant(i))])

\* the value of currentSession while no ChatPage is mounted
NoSession ==
    [id |-> 0, title |-> <<>>, messages |-> <<>>, createdAt |-> 0, updatedAt |-> 0]

\* ChatInput's recorder after construction: useState(false), useState(0),
\* useRef(null); nothing acquired, recorded or scheduled
NoRecording ==
    /\ isRecording = FALSE
    /\ recordingTime = 0
    /\ mediaRecorderRef = 0
    /\ recordingIntervalRef = 0
    /\ acquiring = 0
    /\ recorders = <<>>
    /\ timers = {}
    /\ encoding = <<>>

\* no chat page is involved: its variables stay as they are
NoPage ==
    /\ sessionId = 0
    /\ dev = FALSE
    /\ language = "en"
    /\ now = 0
    /\ mounted = FALSE
    /\ instance = 0
    /\ sessions = <<>>
    /\ currentSession = NoSession
    /\ isLoading = FALSE
    /\ input = <<>>
    /\ selectedImage = Null
    /\ audioFile = Null
    /\ NoRecording
    /\ pending = <<>>
    /\ requests = 0
    /\ event = [h |-> "none"]

pageUnchanged ==
    UNCHANGED <<sessionId, dev, language, now, pageVars, inputVars, recVars, pending, requests, event>>

\* a run starts on an empty store or on one that is two sessions short of full
InitStore ==
    /\ nextId \in {0, MaxHistory - 2}
    /\ storage = StoreAfter(nextId)
    /\ call = [op |-> "none"]
    /\ newIds = 0
    /\ edits = 0
    /\ NoPage

\* saveChatHistory(session) of a session with a newly generated id
StoreSaveNew ==
    /\ newIds < MaxNewIds
    /\ LET session == StoreSession(nextId + 1, FirstVariant(nextId + 1))
       IN  /\ storage' = SaveChatHistory(storage, session)
           /\ call' = [op |-> "save", session |-> session,
                       before |-> GetChatHistory(storage)]
    /\ nextId' = nextId + 1
    /\ newIds' = newIds + 1
    /\ UNCHANGED edits
    /\ pageUnchanged

\* saveChatHistory(session) of a session whose id is stored
StoreSaveExisting(id, v) ==
    /\ edits < MaxEdits
    /\ LET session == StoreSession(id, v)
       IN  /\ storage' = SaveChatHistory(storage, session)
           /\ call' = [op |-> "save", session |-> session,
                       before |-> GetChatHistory(storage)]
    /\ edits' = edits + 1
    /\ UNCHANGED <<nextId, newIds>>
    /\ pageUnchanged

\* deleteChatSession(sessionId)
StoreDelete(id) ==
    /\ edits < MaxEdits
    /\ storage' = DeleteChatSession(storage, id)
    /\ call' = [op |-> "delete", id |-> id, before |-> GetChatHistory(storage)]
    /\ edits' = edits + 1
    /\ UNCHANGED <<nextId, newIds>>
    /\ pageUnchanged

\* clearAllHistory()
StoreClear ==
    /\ edits < MaxEdits
    /\ storage' = ClearAllHistory
    /\ call' = [op |-> "clear", before |-> GetChatHistory(storage)]
    /\ edits' = edits + 1
    /\ UNCHANGED <<nextId, newIds>>
    /\ pageUnchanged

NextStore ==
    \/ StoreSaveNew
    \/ \E id \in EditIds(GetChatHistory(storage)), v \in StoreVariants : StoreSaveExisting(id, v)
    \/ \E id \in EditIds(GetChatHistory(storage)) \cup {nextId + 1} : StoreDelete(id)
    \/ StoreClear

SpecStore == InitStore /\ [][NextStore]_vars

(***************************************************************************)
(* SpecLoad: getChatHistory on any record the key may hold (written by     *)
(* another version of the program, by hand, or damaged)                    *)
(***************************************************************************)
\* a timestamp field: an ISO string, null, no such key, or some other text
RecordDates ==
    {DateToJSON(1005), DateToJSON(InvalidDate),
     [k |-> "absent", sec |-> 0, milli |-> 0], [k |-> "text", sec |-> 0, milli |-> 0]}

\* an element of messages: an object, null, or a primitive
RecordMessages ==
    {[k |-> "obj", id |-> 1005, role |-> "user", content |-> <<"h", "i">>,
      timestamp |-> d, imageUrl |-> OptToJSON(Undefined),
      audioUrl |-> OptToJSON(Undefined)] : d \in RecordDates}
    \cup {[k |-> "null"], [k |-> "primitive"]}

\* the messages field: an array of at most one element, no such key, or a
\* value that is not an array
RecordMessageLists ==
    {[k |-> "array", items |-> <<>>]}
    \cup {[k |-> "array", items |-> <<m>>] : m \in RecordMessages}
    \cup {[k |-> "absent", items |-> <<>>], [k |-> "other", items |-> <<>>]}

\* an element of the top-level array: an object, null, or a primitive
RecordItems ==
    {[k |-> "obj", id |-> 1, title |-> <<"h", "i">>, messages |-> ms,
      createdAt |-> d, updatedAt |-> DateToJSON(1007)] :
        ms \in RecordMessageLists, d \in RecordDates}
    \cup {[k |-> "null"], [k |-> "primitive"]}

RECURSIVE SeqsUpTo(_, _)
SeqsUpTo(S, n) ==
    IF n = 0 THEN {<<>>}
    ELSE LET shorter == SeqsUpTo(S, n - 1)
         IN  shorter \cup {Append(q, x) : q \in shorter, x \in S}

\* localStorage.getItem("earthworm-chat-history"): null, "", a text that is
\* not JSON, JSON of something that is not an array, JSON of an array
Records ==
    {[k |-> "missing"], [k |-> "empty"], [k |-> "unparseable"],
     [k |-> "value", v |-> [k |-> "other", items |-> <<>>]]}
    \cup {[k |-> "value", v |-> [k |-> "array", items |-> q]] :
            q \in SeqsUpTo(RecordItems, MaxRecordItems)}

InitLoad ==
    /\ storage \in Records
    /\ call = [op |-> "none"]
    /\ nextId = 0
    /\ newIds = 0
    /\ edits = 0
    /\ NoPage

\* getChatHistory()
LoadHistory ==
    /\ call.op = "none"
    /\ call' = [op |-> "load", outcome |-> GetChatHistoryOutcome(storage)]
    /\ UNCHANGED <<storage, nextId, newIds, edits>>
    /\ pageUnchanged

NextLoad == LoadHistory

SpecLoad == InitLoad /\ [][NextLoad]_vars

(***************************************************************************)
(* ChatInput and ChatPage                                                  *)
(***************************************************************************)
Space == " "

\* String.prototype.trim
RECURSIVE TrimStart(_)
TrimStart(text) ==
    IF Len(text) > 0 /\ Head(text) = Space THEN TrimStart(Tail(text)) ELSE text

RECURSIVE TrimEnd(_)
TrimEnd(text) ==
    IF Len(text) > 0 /\ text[Len(text)] = Space
    THEN TrimEnd(SubSeq(text, 1, Len(text) - 1))
    ELSE text

Trim(text) == TrimEnd(TrimStart(text))

\* !x of an optional attachment (null in ChatInput, undefined in ChatPage)
Falsy(x) == x \in {Null, Undefined}

\* generateTitle: const maxLength = 30
maxLength == 30

\* variant of generateTitle: < for <=
generateTitleStrict(firstMessage) ==
    IF Len(firstMessage) < maxLength THEN firstMessage
    ELSE SubSeq(firstMessage, 1, maxLength) \o <<".", ".", ".">>

generateTitle(firstMessage) ==
    IF Len(firstMessage) <= maxLength THEN firstMessage
    ELSE SubSeq(firstMessage, 1, maxLength) \o <<".", ".", ".">>

\* variant of IsEmptyPayload: the negation of the last operand is lost
IsEmptyPayloadAudioOnly(text, imageBase64, audio) ==
    Len(Trim(text)) = 0 /\ Falsy(imageBase64) /\ ~Falsy(audio)

\* !text.trim() && !imageBase64 && !audioFile
IsEmptyPayload(text, imageBase64, audio) ==
    Len(Trim(text)) = 0 /\ Falsy(imageBase64) /\ Falsy(audio)

\* ChatInput.handleSend returns early (disabled is never passed: false)
InputRejects(text, image, audio) == IsEmptyPayload(text, image, audio) \/ isLoading

\* t('maintenance')
Maintenance == <<"maintenance">>

\* getFallbackResponse: responses[language] || responses["en"]
FallbackLanguages == {"en", "hi", "ta", "te", "kn", "ml", "bn", "mr", "gu", "pa"}

getFallbackResponse(text, lang) ==
    LET l == IF lang \in FallbackLanguages THEN lang ELSE "en"
    IN  <<"received", l, "\"">> \o text \o <<"\"", "fallback", l>>

\* the session a new chat starts with
NewSession(id) ==
    [id |-> id, title |-> NewChatTitle, messages |-> <<>>,
     createdAt |-> now, updatedAt |-> now]

\* setSessions(prev => existing ? prev.map(...) : [finalSession, ...prev])
UpdateSessions(prev, finalSession) ==
    IF \E i \in 1..Len(prev) : prev[i].id = finalSession.id
    THEN [i \in 1..Len(prev) |->
             IF prev[i].id = finalSession.id THEN finalSession ELSE prev[i]]
    ELSE <<finalSession>> \o prev

(***************************************************************************)
(* Spec: a ChatPage with its ChatInput, the chatService singleton and the  *)
(* chat endpoint                                                           *)
(***************************************************************************)
\* what is typed into the text field
InputTexts ==
    {<<>>, <<Space>>, <<Space, "h", "i", Space>>}
    \cup {Rep("a", n) : n \in maxLength..MaxTextLen}

\* what the composer holds when send is triggered: <<input, selectedImage,
\* audioFile>>, a text alone or an attachment with no text
ComposerInputs ==
    {<<text, Null, Null>> : text \in InputTexts}
    \cup {<<<<>>, "data:image", Null>>, <<<<Space>>, Null, "data:audio">>}

\* data.response of a successful POST /chat
Responses == {<<"o", "k">>, <<>>}

\* how a POST /chat ends: a 2xx answer with its response text, or a failure
\* (fetch rejects, or the status is not ok)
FetchResults ==
    {[ok |-> TRUE, kind |-> "ok", response |-> r] : r \in Responses}
    \cup {[ok |-> FALSE, kind |-> k, response |-> <<>>] : k \in {"network", "status"}}

\* variant of SendMessageOutcome: the import.meta.env.DEV test is missing
SendMessageAlwaysFallback(text, lang, result) ==
    IF result.ok
    THEN [raised |-> FALSE, value |-> result.response]
    ELSE [raised |-> FALSE, value |-> getFallbackResponse(text, lang)]

\* ChatService.sendMessage once fetch has settled with result: the response
\* text, or in the catch block the fallback text of a development build, or
\* the error thrown again
SendMessageOutcome(text, lang, result) ==
    IF result.ok
    THEN [raised |-> FALSE, value |-> result.response]
    ELSE IF dev
         THEN [raised |-> FALSE, value |-> getFallbackResponse(text, lang)]
         ELSE [raised |-> TRUE, value |-> <<>>]

\* the module is loaded: new ChatService() draws the first session id; no
\* ChatPage is mounted yet (the app opens on the login page)
Init ==
    /\ storage = ClearAllHistory
    /\ call = [op |-> "none"]
    /\ newIds = 0
    /\ edits = 0
    /\ sessionId = 1
    /\ nextId = 1
    /\ dev \in BOOLEAN
    /\ language = "en"
    /\ now = 0
    /\ mounted = FALSE
    /\ instance = 0
    /\ sessions = <<>>
    /\ currentSession = NoSession
    /\ isLoading = FALSE
    /\ input = <<>>
    /\ selectedImage = Null
    /\ audioFile = Null
    /\ NoRecording
    /\ pending = <<>>
    /\ requests = 0
    /\ event = [h |-> "none"]

\* the clock advances by a millisecond
Tick ==
    /\ now < MaxClock
    /\ now' = now + 1
    /\ event' = [h |-> "Tick"]
    /\ UNCHANGED <<storage, storeVars, serviceVars, dev, language, pageVars,
                   inputVars, recVars, pending, requests>>

\* ChatPage mounts (App renders it for currentPage = 'chat'): the useState
\* initial values, then the effect that loads the history
Mount ==
    /\ ~mounted
    /\ instance < MaxMounts
    /\ mounted' = TRUE
    /\ instance' = instance + 1
    /\ currentSession' = NewSession(sessionId)
    /\ sessions' = GetChatHistory(storage)
    /\ isLoading' = FALSE
    /\ input' = <<>>
    /\ selectedImage' = Null
    /\ audioFile' = Null
    /\ event' = [h |-> "Mount"]
    /\ UNCHANGED <<storage, storeVars, serviceVars, dev, language, now, recVars, pending,
                   requests>>

\* ChatPage unmounts (the user navigates to another page): its state is gone
Unmount ==
    /\ mounted
    /\ mounted' = FALSE
    /\ currentSession' = NoSession
    /\ sessions' = <<>>
    /\ isLoading' = FALSE
    /\ input' = <<>>
    /\ selectedImage' = Null
    /\ audioFile' = Null
    /\ event' = [h |-> "Unmount"]
    /\ UNCHANGED <<storage, storeVars, serviceVars, dev, language, now, instance,
                   recVars, pending, requests>>

\* ChatPage.handleSend(text, imageBase64, audioFile) up to its await: the
\* values it gives currentSession, isLoading, pending and requests
PageHandleSend(text, imageBase64, audio) ==
    IF IsEmptyPayload(text, imageBase64, audio)
    THEN [sent |-> FALSE, currentSession |-> currentSession, isLoading |-> isLoading,
          pending |-> pending, requests |-> requests]
    ELSE LET userMessage ==
                 [id |-> now, role |-> "user", content |-> text, timestamp |-> now,
                  imageUrl |-> imageBase64, audioUrl |-> audio]
             appended ==
                 [currentSession EXCEPT !.messages = Append(@, userMessage),
                                        !.updatedAt = now]
             updatedSession ==
                 IF Len(appended.messages) = 1 /\ Len(Trim(text)) > 0
                 THEN [appended EXCEPT !.title = generateTitle(text)]
                 ELSE appended
             request ==
                 [text |-> text, image_base64 |-> imageBase64, audio_file |-> audio,
                  session_id |-> sessionId, language |-> language]
         IN  [sent |-> TRUE, currentSession |-> updatedSession, isLoading |-> TRUE,
              pending |-> Append(pending,
                                 [inst |-> instance, updatedSession |-> updatedSession,
                                  request |-> request]),
              requests |-> requests + 1]

\* ChatInput.handleSend (the send button, or Enter in the text field) with
\* text, image and audio in the composer's input, selectedImage and audioFile
\* fields; an accepted call hands them to ChatPage.handleSend and clears them
handleSend(text, image, audio) ==
    /\ mounted
    /\ requests < MaxRequests
    /\ IF InputRejects(text, image, audio)
       THEN /\ event' = [h |-> "handleSend", text |-> text, image |-> image,
                         audio |-> audio, sent |-> FALSE]
            /\ UNCHANGED <<currentSession, isLoading, pending, requests>>
       ELSE LET r == PageHandleSend(Trim(text),
                                    IF Falsy(image) THEN Undefined ELSE image,
                                    IF Falsy(audio) THEN Undefined ELSE audio)
            IN  /\ currentSession' = r.currentSession
                /\ isLoading' = r.isLoading
                /\ pending' = r.pending
                /\ requests' = r.requests
                /\ event' = [h |-> "handleSend", text |-> text, image |-> image,
                             audio |-> audio, sent |-> r.sent]
    /\ input' = <<>>
    /\ selectedImage' = Null
    /\ audioFile' = Null
    /\ UNCHANGED <<storage, storeVars, serviceVars, dev, language, now, mounted,
                   instance, sessions, recVars>>

\* variant of Respond: no catch and no finally block around the await, the
\* error of sendMessage leaves handleSend
RespondRethrows(i, result) ==
    /\ i \in 1..Len(pending)
    /\ LET p == pending[i]
           thrown == ~result.ok /\ ~dev
       IN  /\ pending' = Without(pending, i)
           /\ event' = [h |-> "Respond", thrown |-> thrown,
                        live |-> mounted /\ instance = p.inst,
                        raised |-> thrown, id |-> p.updatedSession.id]
    /\ UNCHANGED <<storage, storeVars, serviceVars, dev, language, now, pageVars,
                   inputVars, recVars, requests>>

\* the rest of ChatPage.handleSend: sendMessage settles for pending[i] and the
\* code after the await runs. A failed request is answered by the fallback
\* text in a development build and thrown otherwise. The setState calls take
\* effect only on the instance that made the call, while it is mounted.
Respond(i, result) ==
    /\ i \in 1..Len(pending)
    /\ LET p == pending[i]
           outcome == SendMessageOutcome(p.request.text, p.request.language, result)
           thrown == outcome.raised
           response == outcome.value
           assistantMessage ==
               [id |-> now + 1, role |-> "assistant",
                content |-> IF thrown THEN Maintenance ELSE response,
                timestamp |-> now, imageUrl |-> Undefined, audioUrl |-> Undefined]
           finalSession ==
               [p.updatedSession EXCEPT !.messages = Append(@, assistantMessage),
                                        !.updatedAt = now]
           live == mounted /\ instance = p.inst
       IN  /\ pending' = Without(pending, i)
           /\ currentSession' = IF live THEN finalSession ELSE currentSession
           /\ storage' = IF thrown THEN storage
                         ELSE SaveChatHistory(storage, finalSession)
           /\ sessions' = IF live /\ ~thrown
                          THEN UpdateSessions(sessions, finalSession)
                          ELSE sessions
           /\ isLoading' = IF live THEN FALSE ELSE isLoading
           /\ event' = [h |-> "Respond", thrown |-> thrown, live |-> live,
                        raised |-> FALSE, id |-> finalSession.id]
    /\ UNCHANGED <<storeVars, serviceVars, dev, language, now, mounted, instance,
                   inputVars, recVars, requests>>

\* variant of handleNewChat: the new, empty session is saved at once
handleNewChatSaving ==
    /\ mounted
    /\ nextId < MaxIds
    /\ nextId' = nextId + 1
    /\ sessionId' = nextId + 1
    /\ currentSession' = NewSession(nextId + 1)
    /\ storage' = SaveChatHistory(storage, NewSession(nextId + 1))
    /\ event' = [h |-> "handleNewChat"]
    /\ UNCHANGED <<storeVars, dev, language, now, mounted, instance, sessions,
                   isLoading, inputVars, recVars, pending, requests>>

\* ChatPage.handleNewChat
handleNewChat ==
    /\ mounted
    /\ nextId < MaxIds
    /\ nextId' = nextId + 1
    /\ sessionId' = nextId + 1
    /\ currentSession' = NewSession(nextId + 1)
    /\ event' = [h |-> "handleNewChat"]
    /\ UNCHANGED <<storage, storeVars, dev, language, now, mounted, instance, sessions,
                   isLoading, inputVars, recVars, pending, requests>>

\* ChatPage.handleSelectSession(sessionId)
handleSelectSession(id) ==
    /\ mounted
    /\ LET i == FindIndex(sessions, id)
       IN  /\ currentSession' = IF i >= 0 THEN sessions[i + 1] ELSE currentSession
           /\ event' = [h |-> "handleSelectSession", id |-> id, found |-> i >= 0,
                        raised |-> FALSE]
    /\ UNCHANGED <<storage, storeVars, serviceVars, dev, language, now, mounted,
                   instance, sessions, isLoading, inputVars, recVars, pending, requests>>

\* variant of handleDeleteSession: the active session is kept when it is the
\* deleted one
handleDeleteSessionKeepActive(id) ==
    /\ mounted
    /\ storage' = DeleteChatSession(storage, id)
    /\ sessions' = FilterOut(sessions, id)
    /\ event' = [h |-> "handleDeleteSession", id |-> id,
                 active |-> currentSession.id = id]
    /\ UNCHANGED <<storeVars, serviceVars, currentSession, dev, language, now,
                   mounted, instance, isLoading, inputVars, recVars, pending, requests>>

\* ChatPage.handleDeleteSession(e, sessionId)
handleDeleteSession(id) ==
    /\ mounted
    /\ currentSession.id = id => nextId < MaxIds
    /\ storage' = DeleteChatSession(storage, id)
    /\ sessions' = FilterOut(sessions, id)
    /\ IF currentSession.id = id
       THEN /\ nextId' = nextId + 1
            /\ sessionId' = nextId + 1
            /\ currentSession' = NewSession(nextId + 1)
       ELSE UNCHANGED <<nextId, sessionId, currentSession>>
    /\ event' = [h |-> "handleDeleteSession", id |-> id,
                 active |-> currentSession.id = id]
    /\ UNCHANGED <<storeVars, dev, language, now, mounted, instance, isLoading,
                   inputVars, recVars, pending, requests>>

\* ChatPage.handleClearAll (the button is rendered while sessions.length > 0);
\* confirmed is the answer to window.confirm
handleClearAll(confirmed) ==
    /\ mounted
    /\ Len(sessions) > 0
    /\ confirmed => nextId < MaxIds
    /\ IF confirmed
       THEN /\ storage' = ClearAllHistory
            /\ sessions' = <<>>
            /\ nextId' = nextId + 1
            /\ sessionId' = nextId + 1
            /\ currentSession' = NewSession(nextId + 1)
       ELSE UNCHANGED <<storage, sessions, nextId, sessionId, currentSession>>
    /\ event' = [h |-> "handleClearAll", confirmed |-> confirmed]
    /\ UNCHANGED <<storeVars, dev, language, now, mounted, instance, isLoading,
                   inputVars, recVars, pending, requests>>

\* the ids offered by the sidebar, and one that is not in the index
SidebarIds == {sessions[i].id : i \in 1..Len(sessions)}
UnknownId == 0

Next ==
    \/ Tick
    \/ Mount
    \/ Unmount
    \/ \E c \in ComposerInputs : handleSend(c[1], c[2], c[3])
    \/ \E i \in 1..Len(pending), result \in FetchResults : Respond(i, result)
    \/ handleNewChat
    \/ \E id \in SidebarIds \cup {UnknownId} : handleSelectSession(id)
    \/ \E id \in SidebarIds : handleDeleteSession(id)
    \/ \E confirmed \in BOOLEAN : handleClearAll(confirmed)

Spec == Init /\ [][Next]_vars

(***************************************************************************)
(* SpecHistory: one ChatPage on a store that earlier visits have left,     *)
(* small or full; the sessions of those visits have ids of their own       *)
(***************************************************************************)
\* where the ids of the sessions of earlier visits start (generateSessionId
\* never repeats an id)
OldIdBase == 100

\* the record n sessions of earlier visits have left
OldHistory(n) ==
    Stringify([k \in 1..n |-> StoreSession(OldIdBase + k, FirstVariant(k))])

InitHistory ==
    /\ storage \in {OldHistory(SmallHistory), OldHistory(MaxHistory)}
    /\ call = [op |-> "none"]
    /\ newIds = 0
    /\ edits = 0
    /\ sessionId = 1
    /\ nextId = 1
    /\ dev = FALSE
    /\ language = "en"
    /\ now = 0
    /\ mounted = FALSE
    /\ instance = 0
    /\ sessions = <<>>
    /\ currentSession = NoSession
    /\ isLoading = FALSE
    /\ input = <<>>
    /\ selectedImage = Null
    /\ audioFile = Null
    /\ NoRecording
    /\ pending = <<>>
    /\ requests = 0
    /\ event = [h |-> "none"]

\* the sidebar entries that are clicked: the first, the second and the last
ClickIds == EditIds(sessions)

\* deleting goes on while the index is small or nearly full
MayDelete ==
    \/ Len(sessions) <= SmallHistory + MaxIds
    \/ Len(sessions) > MaxHistory - MaxDeletes

NextHistory ==
    \/ Mount
    \/ handleSend(<<"h", "i">>, Null, Null)
    \/ \E i \in 1..Len(pending), result \in FetchResults : Respond(i, result)
    \/ handleNewChat
    \/ \E id \in ClickIds : handleSelectSession(id)
    \/ \E id \in ClickIds : MayDelete /\ handleDeleteSession(id)
    \/ handleClearAll(TRUE)

SpecHistory == InitHistory /\ [][NextHistory]_vars

(***************************************************************************)
(* ChatService.sendMessage alone: one call with any text, language, build  *)
(* and result of the request                                               *)
(***************************************************************************)
ClientTexts == {<<>>, <<"h", "i">>, Rep("a", maxLength)}

InitClient ==
    /\ storage = [k |-> "missing"]
    /\ call = [op |-> "none"]
    /\ nextId = 1
    /\ newIds = 0
    /\ edits = 0
    /\ sessionId = 1
    /\ dev \in BOOLEAN
    /\ language \in FallbackLanguages
    /\ now = 0
    /\ mounted = FALSE
    /\ instance = 0
    /\ sessions = <<>>
    /\ currentSession = NoSession
    /\ isLoading = FALSE
    /\ input = <<>>
    /\ selectedImage = Null
    /\ audioFile = Null
    /\ NoRecording
    /\ pending = <<>>
    /\ requests = 0
    /\ event = [h |-> "none"]

\* chatService.sendMessage(text, language, imageBase64, audioFile), the
\* request settling with result
ClientSendMessage(text, imageBase64, audio, result) ==
    /\ call.op = "none"
    /\ call' = [op |-> "sendMessage",
                request |-> [text |-> text, image_base64 |-> imageBase64,
                             audio_file |-> audio, session_id |-> sessionId,
                             language |-> language],
                result |-> result,
                outcome |-> SendMessageOutcome(text, language, result)]
    /\ UNCHANGED <<storage, nextId, newIds, edits>>
    /\ pageUnchanged

NextClient ==
    \E text \in ClientTexts, imageBase64 \in {Undefined, "data:image"},
       audio \in {Undefined, "data:audio"}, result \in FetchResults :
        ClientSendMessage(text, imageBase64, audio, result)

SpecClient == InitClient /\ [][NextClient]_vars

(***************************************************************************)
(* ChatInput's voice recorder: the microphone button, getUserMedia, the    *)
(* MediaRecorder and FileReader callbacks and the one-second interval      *)
(***************************************************************************)
\* the data URL the FileReader makes of the recording of recorder r
Artifacts == <<"data:audio;1", "data:audio;2", "data:audio;3", "data:audio;4">>

\* a ChatPage with its ChatInput is mounted, nothing typed or recorded
InitRec ==
    /\ storage = ClearAllHistory
    /\ call = [op |-> "none"]
    /\ newIds = 0
    /\ edits = 0
    /\ sessionId = 1
    /\ nextId = 1
    /\ dev = FALSE
    /\ language = "en"
    /\ now = 0
    /\ mounted = TRUE
    /\ instance = 1
    /\ sessions = <<>>
    /\ currentSession = NewSession(1)
    /\ isLoading = FALSE
    /\ input = <<>>
    /\ selectedImage = Null
    /\ audioFile = Null
    /\ NoRecording
    /\ pending = <<>>
    /\ requests = 0
    /\ event = [h |-> "none"]

\* what the recorder's handlers and callbacks leave alone
recFrame ==
    UNCHANGED <<storage, storeVars, serviceVars, dev, language, now, pageVars, input,
                selectedImage, pending, requests>>

\* ChatInput.startRecording up to its await: the held audio is dropped and
\* the microphone is asked for
startRecording ==
    /\ Len(recorders) + acquiring < MaxRecordings
    /\ audioFile' = Null
    /\ acquiring' = acquiring + 1
    /\ event' = [h |-> "startRecording", recording |-> isRecording,
                 acquiring |-> acquiring > 0, held |-> audioFile]
    /\ UNCHANGED <<isRecording, recordingTime, mediaRecorderRef, recordingIntervalRef,
                   recorders, timers, encoding>>
    /\ recFrame

\* getUserMedia resolves with a stream: the rest of startRecording's try
\* block makes a MediaRecorder on it, stores it in the ref, starts it, sets
\* isRecording, resets the time and sets the interval, stored in its ref
getUserMediaResolves ==
    /\ acquiring > 0
    /\ LET r == Len(recorders) + 1
       IN  /\ recorders' = Append(recorders, [state |-> "recording", live |-> TRUE])
           /\ mediaRecorderRef' = r
           /\ timers' = timers \cup {r}
           /\ recordingIntervalRef' = r
           /\ event' = [h |-> "getUserMedia", ok |-> TRUE, id |-> r]
    /\ acquiring' = acquiring - 1
    /\ isRecording' = TRUE
    /\ recordingTime' = 0
    /\ UNCHANGED <<audioFile, encoding>>
    /\ recFrame

\* getUserMedia rejects (permission denied, no device): startRecording's
\* catch block logs and alerts
getUserMediaRejects ==
    /\ acquiring > 0
    /\ acquiring' = acquiring - 1
    /\ event' = [h |-> "getUserMedia", ok |-> FALSE, id |-> 0]
    /\ UNCHANGED <<audioFile, isRecording, recordingTime, mediaRecorderRef,
                   recordingIntervalRef, recorders, timers, encoding>>
    /\ recFrame

\* variant of stopRecording: the held audio is dropped on every call
stopRecordingClearing ==
    /\ audioFile' = Null
    /\ IF mediaRecorderRef # 0 /\ isRecording
       THEN /\ recorders' = [recorders EXCEPT ![mediaRecorderRef].state = "stopping"]
            /\ isRecording' = FALSE
            /\ timers' = timers \ {recordingIntervalRef}
            /\ recordingIntervalRef' = 0
       ELSE UNCHANGED <<recorders, isRecording, timers, recordingIntervalRef>>
    /\ event' = [h |-> "stopRecording", recording |-> isRecording]
    /\ UNCHANGED <<recordingTime, mediaRecorderRef, acquiring, encoding>>
    /\ recFrame

\* ChatInput.stopRecording: with a recorder in the ref and isRecording set,
\* the recorder is stopped (its onstop runs later), isRecording is cleared
\* and the interval of the ref is cleared; otherwise nothing happens
stopRecording ==
    /\ IF mediaRecorderRef # 0 /\ isRecording
       THEN /\ recorders' = [recorders EXCEPT ![mediaRecorderRef].state = "stopping"]
            /\ isRecording' = FALSE
            /\ timers' = timers \ {recordingIntervalRef}
            /\ recordingIntervalRef' = 0
       ELSE UNCHANGED <<recorders, isRecording, timers, recordingIntervalRef>>
    /\ event' = [h |-> "stopRecording", recording |-> isRecording]
    /\ UNCHANGED <<audioFile, recordingTime, mediaRecorderRef, acquiring, encoding>>
    /\ recFrame

\* the microphone button: onClick={isRecording ? stopRecording : startRecording}
micButtonClick == IF isRecording THEN stopRecording ELSE startRecording

\* mediaRecorder.onstop of recorder r: a FileReader starts reading the
\* recording and the tracks of the recorder's stream are stopped
onstop(r) ==
    /\ r \in 1..Len(recorders)
    /\ recorders[r].state = "stopping"
    /\ recorders' = [recorders EXCEPT ![r] = [state |-> "inactive", live |-> FALSE]]
    /\ encoding' = Append(encoding, r)
    /\ event' = [h |-> "onstop", id |-> r]
    /\ UNCHANGED <<audioFile, isRecording, recordingTime, mediaRecorderRef,
                   recordingIntervalRef, acquiring, timers>>
    /\ recFrame

\* reader.onloadend of the i-th FileReader: setAudioFile(base64Audio)
onloadend(i) ==
    /\ i \in 1..Len(encoding)
    /\ audioFile' = Artifacts[encoding[i]]
    /\ encoding' = Without(encoding, i)
    /\ event' = [h |-> "onloadend", id |-> encoding[i]]
    /\ UNCHANGED <<isRecording, recordingTime, mediaRecorderRef, recordingIntervalRef,
                   acquiring, recorders, timers>>
    /\ recFrame

\* the callback of interval t: setRecordingTime(prev => prev + 1)
intervalTick(t) ==
    /\ t \in timers
    /\ recordingTime < MaxRecordingTime
    /\ recordingTime' = recordingTime + 1
    /\ event' = [h |-> "interval", id |-> t]
    /\ UNCHANGED <<audioFile, isRecording, mediaRecorderRef, recordingIntervalRef,
                   acquiring, recorders, timers, encoding>>
    /\ recFrame

\* stopRecording is also taken on its own, whatever isRecording is: the
\* function makes the test itself
NextRec ==
    \/ micButtonClick
    \/ stopRecording
    \/ getUserMediaResolves
    \/ getUserMediaRejects
    \/ \E r \in 1..Len(recorders) : onstop(r)
    \/ \E i \in 1..Len(encoding) : onloadend(i)
    \/ \E t \in timers : intervalTick(t)

SpecRec == InitRec /\ [][NextRec]_vars

(***************************************************************************)
(* Properties of the persisted collection (checked under SpecStore)        *)
(***************************************************************************)
\* what load() returns cur
Loaded == GetChatHistory(storage)

\* the number of sessions in the persisted record
StoredCount ==
    IF storage.k = "value" /\ storage.v.k = "array" THEN Len(storage.v.items) ELSE 0

SaveOfNewId == call.op = "save" /\ FindIndex(call.before, call.session.id) = -1
SaveOfStoredId == call.op = "save" /\ FindIndex(call.before, call.session.id) >= 0

\* C1: after any sequence of save, delete and clear calls that starts on an
\* empty store, the persisted collection holds at most 50 sessions.
C1_AtMostFifty == StoredCount <= MaxHistory

\* C1 witness: a save of a new session into a store of 50 has happened and the
\* store still holds 50.
C1_Witness == SaveOfNewId /\ Len(call.before) = MaxHistory /\ StoredCount = MaxHistory

\* C2: a save of a session with a new id into a store of 50 removes exactly the
\* session at position 0, keeps the other 49 in order and puts the new one last.
C2_EvictsFirst ==
    (SaveOfNewId /\ Len(call.before) = MaxHistory)
        => Loaded = Tail(call.before) \o <<call.session>>

\* C2 witness: the evicted session at position 0 was the most recently updated
\* session of the store, newer than the one being saved.
C2_Witness ==
    /\ SaveOfNewId
    /\ Len(call.before) = MaxHistory
    /\ \A i \in 2..MaxHistory : call.before[1].updatedAt > call.before[i].updatedAt
    /\ call.before[1].updatedAt > call.session.updatedAt
    /\ LET cur == Loaded IN \A i \in 1..Len(cur) : cur[i].id # call.before[1].id

\* C3: save is an upsert by id: a stored id is replaced at its position, with
\* the size and all other sessions unchanged; a new id is appended at the end
\* (after which a store of more than 50 drops its first session); and no two
\* stored sessions share an id.
C3_Upsert ==
    LET cur == Loaded
        ids == [i \in 1..Len(cur) |-> cur[i].id]
    IN  /\ SaveOfStoredId =>
              LET i == FindIndex(call.before, call.session.id) + 1
              IN  /\ Len(cur) = Len(call.before)
                  /\ cur[i] = call.session
                  /\ \A j \in 1..Len(cur) : j # i => cur[j] = call.before[j]
        /\ SaveOfNewId =>
              /\ cur[Len(cur)] = call.session
              /\ \/ cur = Append(call.before, call.session)
                 \/ /\ Len(call.before) = MaxHistory
                    /\ cur = Append(Tail(call.before), call.session)
        /\ \A i, j \in 1..Len(ids) : ids[i] = ids[j] => i = j

\* C3 witness: a stored session that is neither first nor alone was replaced by
\* a different value.
C3_Witness ==
    /\ SaveOfStoredId
    /\ Len(call.before) >= 3
    /\ FindIndex(call.before, call.session.id) = 1
    /\ call.before[2] # call.session

\* C4: load() after save(s) contains a session equal to s: id, title, messages
\* (ids, roles, contents, attachments, timestamps), createdAt and updatedAt.
C4_RoundTrip ==
    call.op = "save" =>
        LET cur == Loaded IN \E i \in 1..Len(cur) : cur[i] = call.session

\* C4 witness: the saved session carries attachments and timestamps with both
\* a seconds part and a milliseconds part.
C4_Witness ==
    /\ call.op = "save"
    /\ call.session.messages[1].imageUrl # Undefined
    /\ call.session.updatedAt % 1000 # 0
    /\ call.session.updatedAt \div 1000 # 0
    /\ LET cur == Loaded IN \E i \in 1..Len(cur) : cur[i] = call.session

\* C6: delete(id) removes exactly the stored session with that id, leaving the
\* others and their order unchanged; for an id that is not stored load()
\* returns the same collection before and after.
C6_DeleteFrame ==
    call.op = "delete" =>
        LET i == FindIndex(call.before, call.id) + 1
        IN  IF i >= 1 THEN Loaded = Without(call.before, i) ELSE Loaded = call.before

\* C6 witness: a session in the middle of a store of three or more was deleted.
C6_Witness ==
    /\ call.op = "delete"
    /\ Len(call.before) >= 3
    /\ FindIndex(call.before, call.id) = 1
    /\ Len(Loaded) = Len(call.before) - 1

(***************************************************************************)
(* Properties of getChatHistory on arbitrary records (SpecLoad)            *)
(***************************************************************************)
WellFormedDate(j) == j.k = "iso"

WellFormedMessage(m) ==
    m.k = "obj" /\ m.role \in {"user", "assistant"} /\ WellFormedDate(m.timestamp)

WellFormedSession(s) ==
    /\ s.k = "obj"
    /\ WellFormedDate(s.createdAt)
    /\ WellFormedDate(s.updatedAt)
    /\ s.messages.k = "array"
    /\ \A i \in 1..Len(s.messages.items) : WellFormedMessage(s.messages.items[i])

\* the record is JSON of a sequence of well-formed sessions
WellFormedRecord(st) ==
    /\ st.k = "value"
    /\ st.v.k = "array"
    /\ \A i \in 1..Len(st.v.items) : WellFormedSession(st.v.items[i])

\* C5: load() never raises to its caller, and returns the empty sequence when
\* the record is missing, does not parse, or is not a sequence of well-formed
\* sessions.
C5_LoadFailsSoft ==
    call.op = "load" =>
        /\ ~call.outcome.raised
        /\ ~WellFormedRecord(storage) => Len(call.outcome.value) = 0

(***************************************************************************)
(* Properties of sending (checked under Spec)                              *)
(***************************************************************************)
\* the step is a call of ChatInput.handleSend
SendStep == event'.h = "handleSend"

\* the composer held nothing but white space: no text, no image, no audio
NothingToSend(e) ==
    /\ \A i \in 1..Len(e.text) : e.text[i] = Space
    /\ e.image = Null
    /\ e.audio = Null

\* C7: send with empty or whitespace-only text, no image and no audio is a
\* no-op: no message is appended to the active session, no request is issued,
\* the loading flag is not set and the store is not written.
C7_EmptySendIsNoOp ==
    [][(SendStep /\ NothingToSend(event'))
          => /\ currentSession' = currentSession
             /\ requests' = requests
             /\ pending' = pending
             /\ isLoading' = isLoading
             /\ storage' = storage]_vars

\* C7 witness: a whitespace-only send was attempted on an idle page.
C7_Witness ==
    /\ event.h = "handleSend"
    /\ event.text = <<Space>>
    /\ NothingToSend(event)
    /\ mounted
    /\ ~isLoading
    /\ Len(currentSession.messages) = 0

\* C8: when the first message of a session carries text, the title becomes
\* that text if it has at most 30 characters, and else its first 30 characters
\* followed by "..." (30 characters: no ellipsis; 31: ellipsis).
C8_TitleFromFirstMessage ==
    [][(SendStep /\ event'.sent /\ Len(currentSession.messages) = 0
           /\ Len(currentSession'.messages[1].content) > 0)
          => LET text == currentSession'.messages[1].content
             IN  currentSession'.title =
                     IF Len(text) <= 30 THEN text
                     ELSE SubSeq(text, 1, 30) \o <<".", ".", ".">>]_vars

\* C8 witness: a first message of 31 characters was sent and the title is its
\* first 30 characters and the ellipsis.
C8_Witness ==
    /\ event.h = "handleSend"
    /\ event.sent
    /\ Len(currentSession.messages) = 1
    /\ Len(currentSession.messages[1].content) = 31
    /\ currentSession.title = Rep("a", 30) \o <<".", ".", ".">>

\* the title the store holds for session id, <<>> when it holds no such session
StoredTitle(st, id) ==
    LET history == GetChatHistory(st)
        i == FindIndex(history, id)
    IN  IF i >= 0 THEN <<history[i + 1].title>> ELSE <<>>

\* C9: the title of a session is only set by its first message: once a session
\* holds messages, no later send (its call or its completion) changes its
\* title, in memory or in the store.
C9_TitleNeverOverwritten ==
    [][(event'.h \in {"handleSend", "Respond"})
          => /\ (mounted /\ Len(currentSession.messages) >= 1
                     /\ currentSession'.id = currentSession.id)
                    => currentSession'.title = currentSession.title
             /\ \A id \in 1..MaxIds :
                    StoredTitle(storage, id) # <<>>
                        => StoredTitle(storage', id) = StoredTitle(storage, id)]_vars

\* C10: a send attempted while an earlier send on the same session is waiting
\* for its response is rejected: it appends no message and issues no request.
C10_SecondSendRejected ==
    [][(SendStep /\ \E i \in 1..Len(pending) :
                        pending[i].updatedSession.id = currentSession.id)
          => /\ currentSession' = currentSession
             /\ requests' = requests
             /\ pending' = pending]_vars

(***************************************************************************)
(* Properties of the completion of a send (checked under Spec)             *)
(***************************************************************************)
\* the step runs the code after the await of handleSend
RespondStep == event'.h = "Respond"

\* the step completes the send pending[i]: messages is the session of that
\* send followed by one assistant message
CompletesSend(i, messages) ==
    LET before == pending[i].updatedSession.messages
    IN  /\ pending' = Without(pending, i)
        /\ Len(messages) = Len(before) + 1
        /\ SubSeq(messages, 1, Len(before)) = before
        /\ before[Len(before)].role = "user"
        /\ messages[Len(messages)].role = "assistant"

\* C11: when the chat client raises during a send, handleSend does not raise:
\* one assistant message with the service-unavailable notice is appended after
\* the user message and the loading flag is cleared (on the page instance that
\* made the send, while it is mounted).
C11_FailureAbsorbed ==
    [][(RespondStep /\ event'.thrown /\ event'.live)
          => /\ ~event'.raised
             /\ \E i \in 1..Len(pending) :
                    /\ CompletesSend(i, currentSession'.messages)
                    /\ currentSession'.messages[Len(currentSession'.messages)].content
                           = <<"maintenance">>
             /\ ~isLoading']_vars

\* C11 witness: a production build, the request failed, the notice is the last
\* message of the active session and the page is idle again.
C11_Witness ==
    /\ event.h = "Respond"
    /\ event.thrown
    /\ event.live
    /\ ~dev
    /\ ~isLoading
    /\ Len(currentSession.messages) = 2
    /\ currentSession.messages[1].role = "user"
    /\ currentSession.messages[2].content = <<"maintenance">>

\* C12: after every completed exchange, the request having succeeded or its
\* failure having been absorbed, the store holds a session with the id of the
\* session of that exchange whose messages include the user message and the
\* assistant message of the exchange.
C12_ExchangePersisted ==
    [][RespondStep
          => \E i \in 1..Len(pending) :
                 LET history == GetChatHistory(storage')
                     k == FindIndex(history, pending[i].updatedSession.id)
                 IN  /\ k >= 0
                     /\ CompletesSend(i, history[k + 1].messages)]_vars

(***************************************************************************)
(* Properties of the stored sessions (checked under Spec)                  *)
(***************************************************************************)
\* C13: a session with no messages is never written to the store: every
\* stored session holds at least one completed exchange, a user message
\* followed by an assistant message.
C13_NoEmptySessionStored ==
    LET history == GetChatHistory(storage)
    IN  \A k \in 1..Len(history) :
            /\ Len(history[k].messages) >= 2
            /\ history[k].messages[1].role = "user"
            /\ history[k].messages[2].role = "assistant"

\* C13 witness: a new, empty session was just made the active one while the
\* store holds an earlier session.
C13_Witness ==
    /\ event.h = "handleNewChat"
    /\ Len(currentSession.messages) = 0
    /\ StoredCount >= 1
    /\ FindIndex(GetChatHistory(storage), currentSession.id) = -1

(***************************************************************************)
(* Properties of the sidebar handlers (checked under Spec)                 *)
(***************************************************************************)
\* C14: selecting an id that is not in the loaded index fails with NotFound,
\* raised to the caller; selecting a known id makes that session the active
\* one.
C14_SelectUnknownRaises ==
    [][(event'.h = "handleSelectSession")
          => LET i == FindIndex(sessions, event'.id)
             IN  IF i = -1
                 THEN event'.raised
                 ELSE ~event'.raised /\ currentSession' = sessions[i + 1]]_vars

\* the ids of the sessions the page, the store or a send in flight holds
IdsInUse ==
    {currentSession.id}
        \cup {sessions[k].id : k \in 1..Len(sessions)}
        \cup {pending[k].updatedSession.id : k \in 1..Len(pending)}
        \cup LET history == GetChatHistory(storage)
             IN  {history[k].id : k \in 1..Len(history)}

\* C15: deleting a session removes it from the store and from the in-memory
\* index; when it is the active session, the active session becomes a new
\* session with a fresh id, no messages and the placeholder title; otherwise
\* the active session is unchanged.
C15_DeleteSession ==
    [][(event'.h = "handleDeleteSession")
          => /\ FindIndex(GetChatHistory(storage'), event'.id) = -1
             /\ FindIndex(sessions', event'.id) = -1
             /\ IF currentSession.id = event'.id
                THEN /\ currentSession'.id \notin IdsInUse
                     /\ currentSession'.messages = <<>>
                     /\ currentSession'.title = <<"New Chat">>
                ELSE currentSession' = currentSession]_vars

\* C15 witness: the active session, which was stored, has been deleted.
C15_Witness ==
    /\ event.h = "handleDeleteSession"
    /\ event.active
    /\ currentSession.id # event.id
    /\ Len(currentSession.messages) = 0
    /\ FindIndex(GetChatHistory(storage), event.id) = -1

\* C16: every request a send issues carries as session_id the id of the
\* session that is active at that moment, the session the user message was
\* appended to, also when that session was chosen from the stored history.
C16_RequestCarriesActiveId ==
    [][(SendStep /\ event'.sent)
          => LET p == pending'[Len(pending')]
             IN  /\ p.updatedSession.id = currentSession.id
                 /\ p.request.session_id = currentSession.id]_vars

(***************************************************************************)
(* Properties of ChatService.sendMessage (checked under SpecClient)        *)
(***************************************************************************)
\* seq holds part as a contiguous run
Contains(seq, part) ==
    \E k \in 0..(Len(seq) - Len(part)) : SubSeq(seq, k + 1, k + Len(part)) = part

\* C17: when the request fails (transport error or non-success status) the
\* outcome depends only on the build: a development build returns the
\* placeholder response of the request language, which contains the input
\* text; a production build raises the error and returns no text.
C17_FallbackOnlyInDev ==
    (call.op = "sendMessage" /\ ~call.result.ok)
        => IF dev
           THEN /\ ~call.outcome.raised
                /\ Contains(call.outcome.value, <<"\"">> \o call.request.text \o <<"\"">>)
                /\ call.outcome.value[1] = "received"
                /\ call.outcome.value[2] = call.request.language
                /\ call.outcome.value[Len(call.outcome.value)] = call.request.language
           ELSE /\ call.outcome.raised
                /\ call.outcome.value = <<>>

\* C17 witness: a development build answered a request in Tamil that got a
\* non-success status with the placeholder around the text.
C17_Witness ==
    /\ call.op = "sendMessage"
    /\ call.result.kind = "status"
    /\ dev
    /\ call.request.language = "ta"
    /\ call.request.text = <<"h", "i">>
    /\ ~call.outcome.raised
    /\ Contains(call.outcome.value, <<"h", "i">>)

(***************************************************************************)
(* Properties of the voice recorder (checked under SpecRec)                *)
(***************************************************************************)
\* the recorders that are recording
ActiveRecordings == {r \in 1..Len(recorders) : recorders[r].state = "recording"}

\* the recorders whose stream is open: the microphone is held for them
OpenStreams == {r \in 1..Len(recorders) : recorders[r].live}

\* C18: at most one recording is active and the microphone is held by at most
\* one acquisition at a time: a start issued while a recording is active or
\* while an earlier start is still acquiring the microphone does not acquire
\* it a second time.
C18_OneRecording ==
    [][/\ Cardinality(ActiveRecordings') <= 1
       /\ (event'.h = "startRecording" /\ (isRecording \/ acquiring > 0))
              => acquiring' = acquiring]_vars

\* C19: stopRecording called while not recording is a no-op: the recording
\* flag, the recording time, the held audio and the microphone are unchanged.
C19_StopWhenIdleIsNoOp ==
    [][(event'.h = "stopRecording" /\ ~isRecording)
          => /\ isRecording' = isRecording
             /\ recordingTime' = recordingTime
             /\ audioFile' = audioFile
             /\ recorders' = recorders
             /\ acquiring' = acquiring
             /\ timers' = timers
             /\ encoding' = encoding]_vars

\* C19 witness: stopRecording was called after a recording had ended and its
\* audio was held.
C19_Witness ==
    /\ event.h = "stopRecording"
    /\ ~event.recording
    /\ ~isRecording
    /\ audioFile # Null
    /\ Len(recorders) > 0

\* C20: the microphone is acquired only by start and every acquisition is
\* released by stop: once stopRecording and the onstop callback have run, no
\* stream of an earlier start is open; the microphone is never held while the
\* recorder is idle.
C20_MicReleasedWhenIdle ==
    (~isRecording /\ \A r \in 1..Len(recorders) : recorders[r].state # "stopping")
        => OpenStreams = {}

(***************************************************************************)
(* Further properties of the chat page (checked under Spec)                *)
(***************************************************************************)
\* no user message of the session carries text
NoUserText(session) ==
    \A k \in 1..Len(session.messages) :
        session.messages[k].role = "user" => Len(session.messages[k].content) = 0

\* C21: a session keeps the placeholder title until the first user message
\* that carries text arrives, and its title is then derived from that text,
\* also when earlier messages of the session were media-only.
C21_TitleFromFirstText ==
    [][(SendStep /\ event'.sent)
          => LET text == currentSession'.messages[Len(currentSession'.messages)].content
             IN  /\ NoUserText(currentSession') => currentSession'.title = <<"New Chat">>
                 /\ (NoUserText(currentSession) /\ Len(text) > 0)
                        => currentSession'.title =
                               IF Len(text) <= 30 THEN text
                               ELSE SubSeq(text, 1, 30) \o <<".", ".", ".">>]_vars

\* the ids of a sequence of sessions, in its order
IdsOf(history) == [k \in 1..Len(history) |-> history[k].id]

\* C22: after a completed exchange the in-memory index holds the session
\* exactly once and at the front, when it was inserted and when it was in the
\* index before at another position; the order of the store is not changed
\* when the stored session is replaced.
C22_IndexFrontAfterExchange ==
    [][(RespondStep /\ event'.live /\ ~event'.thrown)
          => /\ Cardinality({k \in 1..Len(sessions') : sessions'[k].id = event'.id}) = 1
             /\ sessions'[1].id = event'.id
             /\ LET before == IdsOf(GetChatHistory(storage))
                IN  (\E k \in 1..Len(before) : before[k] = event'.id)
                        => IdsOf(GetChatHistory(storage')) = before]_vars

(***************************************************************************)
(* Further properties of the voice recorder (checked under SpecRec)        *)
(***************************************************************************)
\* nothing of the recorder is under way: no acquisition, no recording, no
\* recorder waiting for its onstop, no FileReader reading
RecorderAtRest ==
    /\ ~isRecording
    /\ acquiring = 0
    /\ encoding = <<>>
    /\ \A r \in 1..Len(recorders) : recorders[r].state = "inactive"

\* C23: a successful start supersedes any earlier recording: while the
\* recorder is recording no audio is held, also when the encoding of the
\* previous recording ends after the new start; the audio held after the
\* next stop is the one of the newest recording.
C23_NewRecordingSupersedes ==
    /\ isRecording => audioFile = Null
    /\ (RecorderAtRest /\ audioFile # Null)
           => audioFile = Artifacts[Len(recorders)]

\* C24: a start that fails to acquire the microphone leaves the recorder as
\* it was before the call: it is not recording, no interval is set, no second
\* acquisition is made, and audio held before the call is still held.
\* (Stated for a failure that follows the call directly: event is the call.)
C24_FailedStartChangesNothing ==
    [][(event.h = "startRecording" /\ event'.h = "getUserMedia" /\ ~event'.ok)
          => /\ isRecording' = event.recording
             /\ recordingTime' = recordingTime
             /\ timers' = timers
             /\ recorders' = recorders
             /\ acquiring' = acquiring - 1
             /\ audioFile' = event.held]_vars

(***************************************************************************)
(* Properties of the messages (checked under Spec)                         *)
(***************************************************************************)
\* the message carries text, an image or audio
HasPayload(m) ==
    \/ Len(m.content) > 0
    \/ m.imageUrl \notin {Null, Undefined}
    \/ m.audioUrl \notin {Null, Undefined}

\* the sessions the page and the store hold
SessionsHeld ==
    LET history == GetChatHistory(storage)
    IN  {history[k] : k \in 1..Len(history)}
            \cup {sessions[k] : k \in 1..Len(sessions)}
            \cup (IF mounted THEN {currentSession} ELSE {})

\* C25: every message of every session, in memory and in the store, has a
\* payload: non-empty content, an image or audio; user messages and assistant
\* messages alike, whatever response the endpoint returns.
C25_EveryMessageHasPayload ==
    \A session \in SessionsHeld :
        \A k \in 1..Len(session.messages) : HasPayload(session.messages[k])

\* C26: within one session no two messages have the same id, for any sequence
\* of sends and any non-decreasing clock.
C26_MessageIdsUnique ==
    \A session \in SessionsHeld :
        \A j, k \in 1..Len(session.messages) :
            session.messages[j].id = session.messages[k].id => j = k

(***************************************************************************)
(* Properties of the index and the store (checked under SpecHistory, one   *)
(* ChatPage on a stored history, and under Spec)                           *)
(***************************************************************************)
\* the ids of the sessions of a sequence
IdSet(history) == {history[k].id : k \in 1..Len(history)}

\* C27: starting from an index loaded from the store, after any sequence of
\* completed sends, deletions and clearings the ids of the in-memory index
\* are the ids of the store; a session the capacity limit evicted from the
\* store is not left in the index.
C27_IndexMatchesStore ==
    mounted => IdSet(sessions) = IdSet(GetChatHistory(storage))

(***************************************************************************)
(* Properties of sends that overlap other operations (checked under Spec)  *)
(***************************************************************************)
\* C28: the completion of a send does not change which session is active:
\* when the user has switched to another session while the send was waiting
\* for its response, that session is still the active one afterwards and no
\* assistant message is appended to it.
C28_CompletionKeepsActiveSession ==
    [][(RespondStep /\ event'.live)
          => /\ currentSession'.id = currentSession.id
             /\ currentSession.id # event'.id => currentSession' = currentSession]_vars

\* C29: a deleted session stays deleted: once handleDeleteSession(id) has
\* run, no later step puts a session of that id back into the store or the
\* index, the completion of a send that was in flight on that session
\* included. (Stated for the step that follows the deletion: event is the
\* deletion.)
C29_DeletedStaysDeleted ==
    [][(event.h = "handleDeleteSession")
          => /\ event.id \notin IdSet(GetChatHistory(storage'))
             /\ event.id \notin IdSet(sessions')]_vars

\* the sequence short is the beginning of the sequence long
IsPrefix(short, long) ==
    /\ Len(short) <= Len(long)
    /\ SubSeq(long, 1, Len(short)) = short

\* C30: stored conversations are append-only: whenever a save replaces a
\* stored session by id, the messages stored before are a prefix of the
\* messages stored after, also when the chat page has been unmounted and
\* mounted again.
C30_StoredMessagesAppendOnly ==
    [][LET before == GetChatHistory(storage)
           after == GetChatHistory(storage')
       IN  \A j \in 1..Len(before), k \in 1..Len(after) :
               before[j].id = after[k].id
                   => IsPrefix(before[j].messages, after[k].messages)]_vars

====
